---- MODULE Spec2Model ----
(***************************************************************************)
(* A model of modules/structured.py: four transformations of a pandas      *)
(* data frame (convert_to_categorical, numericalize_categories,            *)
(* interpolate_missing_values, extract_date_features).                     *)
(*                                                                         *)
(* Representation.                                                         *)
(*   - A column name, a text value and a category are Python strings: a    *)
(*     sequence of one-character strings, <<"c","o","l">>.                 *)
(*   - A cell is Some(v) == <<v>> or the missing value None == <<>>        *)
(*     (NaN / None / NaT).                                                 *)
(*   - A number is held in fixed point with one binary digit after the     *)
(*     point: Num(n) == 2*n, so that the mean of two integers is exact.    *)
(*   - A categorical column holds its categories and, per row, a code:     *)
(*     the zero-based position of the row's category, -1 when missing.     *)
(*   - A table is its row labels (index), its column names in order and    *)
(*     its columns.                                                        *)
(*   - A call works on two objects, the caller's data_frame and the        *)
(*     working frame df; a Frame records both and whether they are one     *)
(*     object.                                                             *)
(***************************************************************************)
EXTENDS Integers, Sequences, FiniteSets, TLC

VARIABLES
    table,     \* the table the caller holds and passes to the next call
    call,      \* the last call: function, arguments, the input as it was before
    ret,       \* what the last call left: the input object, the returned table, the mapper
    initial,   \* the table the caller started with
    argnames,  \* the column names the caller's arguments mention
    budget     \* the number of calls the caller still makes

vars == <<table, call, ret, initial, argnames, budget>>

\* ------------------------------------------------------------------ bounds
MaxRows == 2
MaxCalls == 2
MaxThreshold == 2

\* ------------------------------------------------------------------ values
Some(v) == <<v>>
None == <<>>
IsNull(c) == c = None
Val(c) == c[1]
Num(n) == 2 * n

SeqToSet(s) == {s[i] : i \in 1..Len(s)}

\* Code points order the characters the model uses (the order of ord()).
Alphabet == <<"\n", "/", "0", "1", "2", "3", "4", "5", "6", "7", "8", "9",
              "A", "D", "E", "S", "T", "_", "a", "b", "c", "d", "e", "f", "g", "h",
              "i", "k", "l", "m", "n", "o", "q", "r", "s", "t", "u", "w", "x", "y">>
Ord(ch) == CHOOSE i \in 1..Len(Alphabet) : Alphabet[i] = ch

\* Python's str.__lt__: lexicographic by code point
StrLess(s, t) ==
    \E k \in 1..(Len(t)) :
        /\ \A j \in 1..(k-1) : j <= Len(s) /\ s[j] = t[j]
        /\ \/ Len(s) = k - 1
           \/ Len(s) >= k /\ Ord(s[k]) < Ord(t[k])

RECURSIVE SortStrings(_)
SortStrings(S) ==
    IF S = {} THEN <<>>
    ELSE LET m == CHOOSE x \in S : \A y \in S \ {x} : StrLess(x, y)
         IN <<m>> \o SortStrings(S \ {m})

RECURSIVE SortInts(_)
\* the sorted sequence of a sequence of integers (duplicates kept)
SortInts(s) ==
    IF s = <<>> THEN <<>>
    ELSE LET k == CHOOSE i \in 1..Len(s) : \A j \in 1..Len(s) : s[i] <= s[j]
             rest == [i \in 1..(Len(s)-1) |-> IF i < k THEN s[i] ELSE s[i+1]]
         IN <<s[k]>> \o SortInts(rest)

IndexOf(seq, v) == CHOOSE i \in 1..Len(seq) : seq[i] = v

\* ------------------------------------------------------------------ columns and tables
Column(dtype, values) ==
    [dtype |-> dtype, values |-> values, categories |-> <<>>, ordered |-> FALSE]

Categorical(categories, codes, ordered) ==
    [dtype |-> "category", values |-> codes, categories |-> categories, ordered |-> ordered]

NoTable == [index |-> <<>>, columns |-> <<>>, data |-> <<>>, none |-> TRUE]

Table(index, columns, data) ==
    [index |-> index, columns |-> columns, data |-> data, none |-> FALSE]

NRows(t) == Len(t.index)
HasColumn(t, name) == \E i \in 1..Len(t.columns) : t.columns[i] = name
\* df[name]
GetItem(t, name) == t.data[IndexOf(t.columns, name)]

\* df[name] = column, on the table value: replaces the column in place, or appends it
SetColumn(t, name, column) ==
    IF HasColumn(t, name)
    THEN Table(t.index, t.columns, [t.data EXCEPT ![IndexOf(t.columns, name)] = column])
    ELSE Table(t.index, Append(t.columns, name), Append(t.data, column))

RECURSIVE SelectIdx(_, _, _)
\* the subsequence of s at the positions i with keep[i]
SelectIdx(s, keep, i) ==
    IF i > Len(s) THEN <<>>
    ELSE (IF keep[i] THEN <<s[i]>> ELSE <<>>) \o SelectIdx(s, keep, i + 1)

\* (faulty variant) df.drop(names, axis = 1, errors = 'ignore'): a name that is no column is ignored
Drop_IgnoreAbsent(t, names) ==
    LET keep == [i \in 1..Len(t.columns) |-> t.columns[i] \notin names]
    IN [ok |-> TRUE,
        table |-> Table(t.index, SelectIdx(t.columns, keep, 1), SelectIdx(t.data, keep, 1))]

\* df.drop(names, axis = 1): a new table; KeyError when a name is not a column
Drop(t, names) ==
    IF \E n \in names : ~HasColumn(t, n)
    THEN [ok |-> FALSE, table |-> NoTable]
    ELSE LET keep == [i \in 1..Len(t.columns) |-> t.columns[i] \notin names]
         IN [ok |-> TRUE,
             table |-> Table(t.index, SelectIdx(t.columns, keep, 1), SelectIdx(t.data, keep, 1))]

\* ------------------------------------------------------------------ the two objects of a call
\* (faulty variant) df = data_frame: df is the caller's object
DataFrameCopy_SameObject(t) == [input |-> t, df |-> t, alias |-> TRUE]

\* data_frame.copy(): df is a new object with the same content
DataFrameCopy(t) == [input |-> t, df |-> t, alias |-> FALSE]

\* df[name] = column: writes the object df names
SetItem(f, name, column) ==
    LET t == SetColumn(f.df, name, column)
    IN [input |-> IF f.alias THEN t ELSE f.input, df |-> t, alias |-> f.alias]

\* df = <a new table>: rebinds the name df, the old object is left as it is
Rebind(f, t) == [input |-> f.input, df |-> t, alias |-> FALSE]

\* ------------------------------------------------------------------ column selectors
\* A selector argument is None, one name (a str) or a list of names.
NoneSel == [kind |-> "None", v |-> <<>>]
StrSel(name) == [kind |-> "str", v |-> name]
ListSel(names) == [kind |-> "list", v |-> names]

\* if isinstance(x, str): x = [x];  if x is None: x = []
NormalizeSelector(sel) ==
    IF sel.kind = "str" THEN <<sel.v>>
    ELSE IF sel.kind = "None" THEN <<>>
    ELSE sel.v

\* ------------------------------------------------------------------ results
NoMapper == <<>>
\* mapper[key] = value
Put(m, k, v) == [x \in (DOMAIN m) \cup {k} |-> IF x = k THEN v ELSE m[x]]

\* the call returned df (and a mapper); f.input is the caller's object as the call left it
Returned(f, mapper) ==
    [ok |-> TRUE, input |-> f.input, table |-> f.df, distinct |-> ~f.alias, mapper |-> mapper]
\* the call raised: nothing is returned
Raised(f) ==
    [ok |-> FALSE, input |-> f.input, table |-> NoTable, distinct |-> TRUE, mapper |-> NoMapper]

\* ------------------------------------------------------------------ convert_to_categorical
IsStringDtype(col) == col.dtype = "text"
IsCategoricalDtype(col) == col.dtype = "category"
\* pandas counts bool among the numeric dtypes
IsNumericDtype(col) == col.dtype \in {"numeric", "bool"}

\* the values of a text column that are not missing
Present(values) == {Val(values[i]) : i \in {j \in 1..Len(values) : ~IsNull(values[j])}}

\* series.astype('category'): the categories are the sorted distinct values, a missing
\* value has code -1
AsCategory(col) ==
    LET cats == SortStrings(Present(col.values))
    IN Categorical(cats,
                   [i \in 1..Len(col.values) |->
                       IF IsNull(col.values[i]) THEN -1
                       ELSE IndexOf(cats, Val(col.values[i])) - 1],
                   FALSE)

\* (faulty variant) the ordered flag is not set
AsOrdered_Unordered(col) == col

\* .cat.as_ordered()
AsOrdered(col) == [col EXCEPT !.ordered = TRUE]

RECURSIVE ConvertLoop(_, _, _, _, _)
\* for feature in df.columns: ...  (lines 62-64)
ConvertLoop(f, features, i, skip, ordinal) ==
    IF i > Len(features) THEN f
    ELSE LET feature == features[i]
             col == GetItem(f.df, feature)
         IN IF feature \notin skip /\ IsStringDtype(col)
            THEN ConvertLoop(SetItem(f, feature,
                                     IF feature \in ordinal THEN AsOrdered(AsCategory(col))
                                     ELSE AsCategory(col)),
                             features, i + 1, skip, ordinal)
            ELSE ConvertLoop(f, features, i + 1, skip, ordinal)

convert_to_categorical(data_frame, ordinal_categorical_features, drop_features, skip_features) ==
    LET f0 == DataFrameCopy(data_frame)
        ordinal == SeqToSet(NormalizeSelector(ordinal_categorical_features))
        drop == SeqToSet(NormalizeSelector(drop_features))
        skip == SeqToSet(NormalizeSelector(skip_features))
        d == Drop(f0.df, drop)
    IN IF ~d.ok THEN Raised(f0)
       ELSE LET f1 == Rebind(f0, d.table)
            IN Returned(ConvertLoop(f1, f1.df.columns, 1, skip, ordinal), NoMapper)

\* ------------------------------------------------------------------ numericalize_categories
\* a Category Mapper entry: dict(enumerate(categories)), keys from 0, or 'one-hot'
Coded(categories) ==
    [kind |-> "codes", map |-> [k \in 0..(Len(categories) - 1) |-> categories[k + 1]]]
OneHot == [kind |-> "one-hot", map |-> <<>>]

\* (faulty variant) series.cat.codes, without the offset
CodesPlusOne_NoOffset(col) ==
    Column("numeric", [i \in 1..Len(col.values) |-> Some(Num(col.values[i]))])

\* series.cat.codes + 1
CodesPlusOne(col) ==
    Column("numeric", [i \in 1..Len(col.values) |-> Some(Num(col.values[i] + 1))])

\* pd.get_dummies(series, prefix = feature): one 0/1 column per category of the dtype,
\* named '{prefix}_{category}', on the rows (and row labels) of the series; a row whose
\* value is missing is 0 in all of them
GetDummies(index, col, prefix) ==
    Table(index,
          [k \in 1..Len(col.categories) |-> prefix \o <<"_">> \o col.categories[k]],
          [k \in 1..Len(col.categories) |->
              Column("numeric",
                     [i \in 1..Len(col.values) |->
                         Some(IF col.values[i] = k - 1 THEN Num(1) ELSE Num(0))])])

RECURSIVE JoinPairs(_, _, _)
\* the pairs <<i, j>> of a left join on the row labels: for each left row in order,
\* every right row that has its label
JoinPairs(lidx, ridx, i) ==
    IF i > Len(lidx) THEN <<>>
    ELSE LET SameLabel(j) == ridx[j] = lidx[i]
             matches == SelectSeq([j \in 1..Len(ridx) |-> j], SameLabel)
         IN [k \in 1..Len(matches) |-> <<i, matches[k]>>] \o JoinPairs(lidx, ridx, i + 1)

TakeRows(col, rows) == [col EXCEPT !.values = [k \in 1..Len(rows) |-> col.values[rows[k]]]]

\* left.join(right): joins on the row labels; ValueError when a column name is in both
Join(left, right) ==
    IF SeqToSet(left.columns) \cap SeqToSet(right.columns) # {}
    THEN [ok |-> FALSE, table |-> NoTable]
    ELSE LET pairs == JoinPairs(left.index, right.index, 1)
             lrows == [k \in 1..Len(pairs) |-> pairs[k][1]]
             rrows == [k \in 1..Len(pairs) |-> pairs[k][2]]
         IN [ok |-> TRUE,
             table |-> Table([k \in 1..Len(pairs) |-> left.index[lrows[k]]],
                             left.columns \o right.columns,
                             [c \in 1..Len(left.data) |-> TakeRows(left.data[c], lrows)]
                             \o [c \in 1..Len(right.data) |-> TakeRows(right.data[c], rrows)])]

RECURSIVE NumericalizeLoop(_, _, _, _, _, _)
\* for feature in df.columns: ...  (lines 125-134); st = [f, mapper, ok]
NumericalizeLoop(f, mapper, features, i, skip, max_categories) ==
    IF i > Len(features) THEN Returned(f, mapper)
    ELSE LET feature == features[i]
             col == GetItem(f.df, feature)
         IN IF feature \notin skip /\ IsCategoricalDtype(col)
            THEN IF Len(col.categories) > max_categories
                 THEN NumericalizeLoop(SetItem(f, feature, CodesPlusOne(col)),
                                       Put(mapper, feature, Coded(col.categories)),
                                       features, i + 1, skip, max_categories)
                 ELSE LET one_hot == GetDummies(f.df.index, col, feature)
                          f1 == Rebind(f, Drop(f.df, {feature}).table)
                          j == Join(f1.df, one_hot)
                      IN IF ~j.ok THEN Raised(f1)
                         ELSE NumericalizeLoop(Rebind(f1, j.table),
                                               Put(mapper, feature, OneHot),
                                               features, i + 1, skip, max_categories)
            ELSE NumericalizeLoop(f, mapper, features, i + 1, skip, max_categories)

numericalize_categories(data_frame, max_categories, skip_features) ==
    LET f0 == DataFrameCopy(data_frame)
        skip == SeqToSet(NormalizeSelector(skip_features))
    IN NumericalizeLoop(f0, NoMapper, f0.df.columns, 1, skip, max_categories)

\* ------------------------------------------------------------------ interpolate_missing_values
\* the number a numeric or bool cell holds
AsNumber(dtype, v) == IF dtype = "bool" THEN (IF v THEN Num(1) ELSE Num(0)) ELSE v

RECURSIVE NonNull(_, _, _)
NonNull(dtype, values, i) ==
    IF i > Len(values) THEN <<>>
    ELSE (IF IsNull(values[i]) THEN <<>> ELSE <<AsNumber(dtype, Val(values[i]))>>)
         \o NonNull(dtype, values, i + 1)

\* series.median(): missing values are skipped; NaN when nothing is left
Median(col) ==
    LET s == SortInts(NonNull(col.dtype, col.values, 1))
        n == Len(s)
    IN IF n = 0 THEN None
       ELSE IF n % 2 = 1 THEN Some(s[(n + 1) \div 2])
       ELSE Some((s[n \div 2] + s[n \div 2 + 1]) \div 2)

\* series.isnull()
IsNullColumn(col) ==
    Column("bool", [i \in 1..Len(col.values) |-> Some(IsNull(col.values[i]))])

\* series.fillna(value): a NaN value fills nothing
FillNa(col, value) ==
    IF IsNull(value) THEN col
    ELSE [col EXCEPT !.values = [i \in 1..Len(col.values) |->
                                    IF IsNull(col.values[i]) THEN value ELSE col.values[i]]]

MissingName(feature) == feature \o <<"_", "m", "i", "s", "s", "i", "n", "g">>

RECURSIVE InterpolateLoop(_, _, _, _, _)
\* for feature in df.columns: ...  (lines 176-180)
InterpolateLoop(f, mapper, features, i, skip) ==
    IF i > Len(features) THEN Returned(f, mapper)
    ELSE LET feature == features[i]
         IN IF feature \notin skip /\ IsNumericDtype(GetItem(f.df, feature))
            THEN LET f1 == SetItem(f, MissingName(feature), IsNullColumn(GetItem(f.df, feature)))
                     f2 == SetItem(f1, feature,
                                   FillNa(GetItem(f1.df, feature), Median(GetItem(f1.df, feature))))
                 IN InterpolateLoop(f2, Put(mapper, feature, Median(GetItem(f2.df, feature))),
                                    features, i + 1, skip)
            ELSE InterpolateLoop(f, mapper, features, i + 1, skip)

interpolate_missing_values(data_frame, skip_features) ==
    LET f0 == DataFrameCopy(data_frame)
        skip == SeqToSet(NormalizeSelector(skip_features))
    IN InterpolateLoop(f0, NoMapper, f0.df.columns, 1, skip)

\* ------------------------------------------------------------------ dates (the library's calendar)
Timestamp(y, m, d, hh, mm, ss) ==
    [year |-> y, month |-> m, day |-> d, hour |-> hh, minute |-> mm, second |-> ss]

IsLeap(y) == (y % 4 = 0 /\ y % 100 # 0) \/ y % 400 = 0
DaysInMonth(y, m) ==
    IF m = 2 THEN (IF IsLeap(y) THEN 29 ELSE 28)
    ELSE IF m \in {4, 6, 9, 11} THEN 30 ELSE 31

\* days since 1970-01-01 of a civil date
DaysFromCivil(y, m, d) ==
    LET yy == IF m <= 2 THEN y - 1 ELSE y
        era == yy \div 400
        yoe == yy - era * 400
        mp == IF m > 2 THEN m - 3 ELSE m + 9
        doy == (153 * mp + 2) \div 5 + d - 1
        doe == yoe * 365 + yoe \div 4 - yoe \div 100 + doy
    IN era * 146097 + doe - 719468

\* Monday is 0; 1970-01-01 was a Thursday
DayOfWeek(y, m, d) == (DaysFromCivil(y, m, d) + 3) % 7
DayOfYear(y, m, d) == DaysFromCivil(y, m, d) - DaysFromCivil(y, 1, 1) + 1
WeeksInYear(y) ==
    IF DayOfWeek(y, 1, 1) = 3 \/ (IsLeap(y) /\ DayOfWeek(y, 1, 1) = 2) THEN 53 ELSE 52
\* the ISO 8601 week number
IsoWeek(y, m, d) ==
    LET w == (DayOfYear(y, m, d) - (DayOfWeek(y, m, d) + 1) + 10) \div 7
    IN IF w < 1 THEN WeeksInYear(y - 1)
       ELSE IF w > WeeksInYear(y) THEN 1
       ELSE w

Digits == <<"0", "1", "2", "3", "4", "5", "6", "7", "8", "9">>
IsDigits(s) == Len(s) > 0 /\ \A i \in 1..Len(s) : \E k \in 1..10 : Digits[k] = s[i]
RECURSIVE ToInt(_)
ToInt(s) == IF s = <<>> THEN 0
            ELSE 10 * ToInt(SubSeq(s, 1, Len(s) - 1)) + IndexOf(Digits, s[Len(s)]) - 1

\* Parsing of a date string 'month/day/year'; None when the string is no date
ParseDate(s) ==
    LET slashes == {i \in 1..Len(s) : s[i] = "/"}
    IN IF Cardinality(slashes) # 2 THEN None
       ELSE LET a == CHOOSE i \in slashes : \A j \in slashes : i <= j
                b == CHOOSE i \in slashes : \A j \in slashes : j <= i
                ms == SubSeq(s, 1, a - 1)
                ds == SubSeq(s, a + 1, b - 1)
                ys == SubSeq(s, b + 1, Len(s))
            IN IF ~(IsDigits(ms) /\ IsDigits(ds) /\ IsDigits(ys)) THEN None
               ELSE IF ToInt(ms) \notin 1..12 \/ ToInt(ys) < 1 THEN None
               ELSE IF ToInt(ds) \notin 1..DaysInMonth(ToInt(ys), ToInt(ms)) THEN None
               ELSE Some(Timestamp(ToInt(ys), ToInt(ms), ToInt(ds), 0, 0, 0))

\* What one cell becomes under astype(datetime64); "error" when it cannot be coerced.
\* A number is a count of nanoseconds since 1970-01-01, which the model's seconds round
\* to the epoch.
CoerceCell(dtype, cell, categories) ==
    IF dtype = "category"
    THEN (IF cell = -1 THEN [ok |-> TRUE, v |-> None]
          ELSE LET d == ParseDate(categories[cell + 1]) IN [ok |-> ~IsNull(d), v |-> d])
    ELSE IF IsNull(cell) THEN [ok |-> TRUE, v |-> None]
    ELSE IF dtype = "text" THEN LET d == ParseDate(Val(cell)) IN [ok |-> ~IsNull(d), v |-> d]
    ELSE IF dtype = "numeric" THEN [ok |-> TRUE, v |-> Some(Timestamp(1970, 1, 1, 0, 0, 0))]
    ELSE [ok |-> FALSE, v |-> None]

\* series.astype(np.datetime64)
AsDatetime(col) ==
    LET cells == [i \in 1..Len(col.values) |-> CoerceCell(col.dtype, col.values[i], col.categories)]
    IN IF \E i \in 1..Len(cells) : ~cells[i].ok
       THEN [ok |-> FALSE, column |-> Column("datetime", <<>>)]
       ELSE [ok |-> TRUE,
             column |-> Column("datetime", [i \in 1..Len(cells) |-> cells[i].v])]

\* ------------------------------------------------------------------ extract_date_features
A_year == <<"y", "e", "a", "r">>
A_month == <<"m", "o", "n", "t", "h">>
A_week == <<"w", "e", "e", "k">>
A_day == <<"d", "a", "y">>
A_dayofweek == <<"d", "a", "y", "o", "f", "w", "e", "e", "k">>
A_dayofyear == <<"d", "a", "y", "o", "f", "y", "e", "a", "r">>
A_is_month_end == <<"i", "s", "_", "m", "o", "n", "t", "h", "_", "e", "n", "d">>
A_is_month_start == <<"i", "s", "_", "m", "o", "n", "t", "h", "_", "s", "t", "a", "r", "t">>
A_is_quarter_end == <<"i", "s", "_", "q", "u", "a", "r", "t", "e", "r", "_", "e", "n", "d">>
A_is_quarter_start ==
    <<"i", "s", "_", "q", "u", "a", "r", "t", "e", "r", "_", "s", "t", "a", "r", "t">>
A_is_year_end == <<"i", "s", "_", "y", "e", "a", "r", "_", "e", "n", "d">>
A_is_year_start == <<"i", "s", "_", "y", "e", "a", "r", "_", "s", "t", "a", "r", "t">>
A_hour == <<"h", "o", "u", "r">>
A_minute == <<"m", "i", "n", "u", "t", "e">>
A_second == <<"s", "e", "c", "o", "n", "d">>

DateAttrs == <<A_year, A_month, A_week, A_day, A_dayofweek, A_dayofyear, A_is_month_end,
               A_is_month_start, A_is_quarter_end, A_is_quarter_start, A_is_year_end,
               A_is_year_start>>
TimeAttrs == <<A_hour, A_minute, A_second>>

BoolAttrs == {A_is_month_end, A_is_month_start, A_is_quarter_end, A_is_quarter_start,
              A_is_year_end, A_is_year_start}

\* getattr(timestamp, attr)
AttrOf(t, attr) ==
    LET last == DaysInMonth(t.year, t.month)
    IN CASE attr = A_year -> Num(t.year)
         [] attr = A_month -> Num(t.month)
         [] attr = A_week -> Num(IsoWeek(t.year, t.month, t.day))
         [] attr = A_day -> Num(t.day)
         [] attr = A_dayofweek -> Num(DayOfWeek(t.year, t.month, t.day))
         [] attr = A_dayofyear -> Num(DayOfYear(t.year, t.month, t.day))
         [] attr = A_is_month_end -> t.day = last
         [] attr = A_is_month_start -> t.day = 1
         [] attr = A_is_quarter_end -> t.month \in {3, 6, 9, 12} /\ t.day = last
         [] attr = A_is_quarter_start -> t.month \in {1, 4, 7, 10} /\ t.day = 1
         [] attr = A_is_year_end -> t.month = 12 /\ t.day = 31
         [] attr = A_is_year_start -> t.month = 1 /\ t.day = 1
         [] attr = A_hour -> Num(t.hour)
         [] attr = A_minute -> Num(t.minute)
         [] attr = A_second -> Num(t.second)

\* getattr(series.dt, attr): a missing date gives NaN in a number and False in a flag
DtAttr(col, attr) ==
    IF attr \in BoolAttrs
    THEN Column("bool", [i \in 1..Len(col.values) |->
                            IF IsNull(col.values[i]) THEN Some(FALSE)
                            ELSE Some(AttrOf(Val(col.values[i]), attr))])
    ELSE Column("numeric", [i \in 1..Len(col.values) |->
                               IF IsNull(col.values[i]) THEN None
                               ELSE Some(AttrOf(Val(col.values[i]), attr))])

\* (faulty variant) re.sub('date$', '', feature)
DateStem_LowerCaseOnly(feature) ==
    LET n == Len(feature)
        IsDate(k) == /\ k >= 4
                     /\ feature[k - 3] = "d"
                     /\ feature[k - 2] = "a" /\ feature[k - 1] = "t" /\ feature[k] = "e"
    IN IF n >= 1 /\ feature[n] = "\n" /\ IsDate(n - 1)
       THEN SubSeq(feature, 1, n - 5) \o <<"\n">>
       ELSE IF IsDate(n) THEN SubSeq(feature, 1, n - 4)
       ELSE feature

\* re.sub('[Dd]ate$', '', feature): '$' matches at the end and before a final newline
DateStem(feature) ==
    LET n == Len(feature)
        IsDate(k) == /\ k >= 4
                     /\ feature[k - 3] \in {"D", "d"}
                     /\ feature[k - 2] = "a" /\ feature[k - 1] = "t" /\ feature[k] = "e"
    IN IF n >= 1 /\ feature[n] = "\n" /\ IsDate(n - 1)
       THEN SubSeq(feature, 1, n - 5) \o <<"\n">>
       ELSE IF IsDate(n) THEN SubSeq(feature, 1, n - 4)
       ELSE feature

DerivedName(name, attr) == name \o <<"_">> \o attr

RECURSIVE AttrLoop(_, _, _, _, _)
\* for attr in attrs: df[f'{name}_{attr}'] = getattr(df[feature].dt, attr)
AttrLoop(f, feature, name, attrs, k) ==
    IF k > Len(attrs) THEN f
    ELSE AttrLoop(SetItem(f, DerivedName(name, attrs[k]), DtAttr(GetItem(f.df, feature), attrs[k])),
                  feature, name, attrs, k + 1)

RECURSIVE DateLoop(_, _, _, _, _)
\* for feature in date_features: ...  (lines 227-243)
DateLoop(f, date_features, i, attrs, drop) ==
    IF i > Len(date_features) THEN Returned(f, NoMapper)
    ELSE LET feature == date_features[i]
         IN IF ~HasColumn(f.df, feature) THEN Raised(f)
            ELSE LET col == GetItem(f.df, feature)
                     conv == AsDatetime(col)
                 IN IF col.dtype # "datetime" /\ ~conv.ok THEN Raised(f)
                    ELSE LET f1 == IF col.dtype # "datetime"
                                   THEN SetItem(f, feature, conv.column) ELSE f
                             f2 == AttrLoop(f1, feature, DateStem(feature), attrs, 1)
                             f3 == IF drop THEN Rebind(f2, Drop(f2.df, {feature}).table) ELSE f2
                         IN DateLoop(f3, date_features, i + 1, attrs, drop)

extract_date_features(data_frame, date_features, time, drop) ==
    LET f0 == DataFrameCopy(data_frame)
        attrs == IF time THEN DateAttrs \o TimeAttrs ELSE DateAttrs
    IN DateLoop(f0, IF date_features.kind = "str" THEN <<date_features.v>> ELSE date_features.v,
                1, attrs, drop)

\* ------------------------------------------------------------------ the caller
DefaultMaxCategories == 0

NoCall ==
    [fn |-> "none", input |-> NoTable, ordinal |-> NoneSel, drop |-> NoneSel, skip |-> NoneSel,
     max_categories |-> DefaultMaxCategories, date_features |-> NoneSel,
     time |-> FALSE, dropcol |-> TRUE]

NoRet == [ok |-> TRUE, input |-> NoTable, table |-> NoTable, distinct |-> TRUE, mapper |-> NoMapper]

\* The selector arguments a caller passes: None, one name, or a list of two argnames.
Pairs == {p \in argnames \X argnames : StrLess(p[1], p[2])}
Selectors == {NoneSel} \cup {StrSel(n) : n \in argnames} \cup {ListSel(p) : p \in Pairs}
\* date_features has no None form; the order of a list matters
DateSelectors ==
    {StrSel(n) : n \in argnames} \cup {ListSel(p) : p \in {q \in argnames \X argnames : q[1] # q[2]}}

\* The caller goes on with the returned table, or with its input when the call raised.
Called(c, r) ==
    /\ call' = c
    /\ ret' = r
    /\ table' = IF r.ok THEN r.table ELSE r.input
    /\ budget' = budget - 1
    /\ UNCHANGED <<initial, argnames>>

ConvertToCategorical ==
    /\ budget > 0
    /\ \E o \in Selectors, d \in Selectors, s \in Selectors :
          Called([NoCall EXCEPT !.fn = "convert_to_categorical", !.input = table,
                                !.ordinal = o, !.drop = d, !.skip = s],
                 convert_to_categorical(table, o, d, s))

NumericalizeCategories ==
    /\ budget > 0
    /\ \E m \in 0..MaxThreshold, s \in Selectors :
          Called([NoCall EXCEPT !.fn = "numericalize_categories", !.input = table,
                                !.max_categories = m, !.skip = s],
                 numericalize_categories(table, m, s))

InterpolateMissingValues ==
    /\ budget > 0
    /\ \E s \in Selectors :
          Called([NoCall EXCEPT !.fn = "interpolate_missing_values", !.input = table,
                                !.skip = s],
                 interpolate_missing_values(table, s))

ExtractDateFeatures ==
    /\ budget > 0
    /\ \E fs \in DateSelectors, time \in BOOLEAN, drop \in BOOLEAN :
          Called([NoCall EXCEPT !.fn = "extract_date_features", !.input = table,
                                !.date_features = fs, !.time = time, !.dropcol = drop],
                 extract_date_features(table, fs, time, drop))

\* ------------------------------------------------------------------ the tables a caller starts with
Rows == 1..MaxRows
RangeIndex == [i \in Rows |-> i - 1]
\* row labels need not be unique
RepeatedIndex == [i \in Rows |-> 0]

S_a == <<"a">>
S_b == <<"b">>
N_a_b == <<"a", "_", "b">>
N_x == <<"x">>
N_y == <<"y">>
N_x_missing == MissingName(N_x)
N_absent == <<"q">>
N_SaleDate == <<"S", "a", "l", "e", "D", "a", "t", "e">>
N_Saledate == <<"S", "a", "l", "e", "d", "a", "t", "e">>
N_SALEDATE == <<"S", "A", "L", "E", "D", "A", "T", "E">>
N_Sale == <<"S", "a", "l", "e">>
N_date == <<"d", "a", "t", "e">>
N_dateNL == <<"d", "a", "t", "e", "\n">>
N_SaleDateNL == N_Sale \o <<"D", "a", "t", "e", "\n">>
N_Sale_year == DerivedName(N_Sale, A_year)
N_A == <<"A">>
N_A_year == DerivedName(N_A, A_year)

NumCells == {None, Some(Num(1)), Some(Num(2))}
TextCells == {None, Some(S_a), Some(S_b)}
NumericColumns == {Column("numeric", v) : v \in [Rows -> NumCells]}
TextColumns == {Column("text", v) : v \in [Rows -> TextCells]}
CategoricalColumns ==
    {AsCategory(c) : c \in TextColumns}
    \cup {Categorical(<<S_a, S_b>>, v, o) : v \in [Rows -> {-1, 0, 1}], o \in BOOLEAN}

\* '3/11/2000' and '12/31/1999'
D_3_11_2000 == <<"3", "/", "1", "1", "/", "2", "0", "0", "0">>
D_12_31_1999 == <<"1", "2", "/", "3", "1", "/", "1", "9", "9", "9">>
DateCells == {None, Some(Timestamp(2000, 3, 11, 0, 0, 0)), Some(Timestamp(2021, 1, 3, 23, 59, 58))}
DatetimeColumns == {Column("datetime", v) : v \in [Rows -> DateCells]}

\* one column of each kind, whatever the number of rows
OneNumeric == Column("numeric", [i \in Rows |-> IF i = 1 THEN None ELSE Some(Num(i))])
OneBool == Column("bool", [i \in Rows |-> Some(i = 1)])
OneText == Column("text", [i \in Rows |-> IF i = 2 THEN None ELSE Some(S_b)])
OneCategorical == Categorical(<<S_a, S_b>>, [i \in Rows |-> (i % 3) - 1], FALSE)
OneDatetime == Column("datetime", [i \in Rows |-> Some(Timestamp(1999, 12, 31, 0, 0, i))])
OneDateText ==
    Column("text", [i \in Rows |-> Some(IF i = 1 THEN D_3_11_2000 ELSE D_12_31_1999)])

\* The kinds are named, not collected: a set holds values of one type.
OneOf(kind) ==
    CASE kind = "text" -> OneText
      [] kind = "numeric" -> OneNumeric
      [] kind = "bool" -> OneBool
      [] kind = "category" -> OneCategorical
      [] kind = "datetime" -> OneDatetime
      [] kind = "datetext" -> OneDateText

Start(t, ns) ==
    /\ table = t
    /\ initial = t
    /\ argnames = ns
    /\ call = NoCall
    /\ ret = NoRet

TwoColumns(idx, n1, c1, n2, c2) == Table(idx, <<n1, n2>>, <<c1, c2>>)

\* ------------------------------------------------------------------ specifications
\* Any sequence of calls, each on the table the previous one returned.
Init ==
    /\ budget = MaxCalls
    /\ \E idx \in {RangeIndex, RepeatedIndex}, k2 \in {"numeric", "datetime"} :
          \/ \E k1 \in {"text", "category"} :
                Start(TwoColumns(idx, S_a, OneOf(k1), N_x, OneOf(k2)), {S_a, N_absent})
          \/ Start(TwoColumns(idx, N_A, OneOf("datetext"), N_x, OneOf(k2)), {N_A, N_A_year})

Next ==
    \/ ConvertToCategorical
    \/ NumericalizeCategories
    \/ InterpolateMissingValues
    \/ ExtractDateFeatures

Spec == Init /\ [][Next]_vars

\* One call of convert_to_categorical on a table of a text column and a column of any kind.
InitConvert ==
    /\ budget = 1
    /\ \E c1 \in TextColumns,
          k2 \in {"text", "numeric", "bool", "category", "datetime"} :
          Start(TwoColumns(RangeIndex, S_a, c1, S_b, OneOf(k2)), {S_a, S_b, N_absent})

SpecConvert == InitConvert /\ [][ConvertToCategorical]_vars

\* One call of numericalize_categories on a table of a categorical column 'a' and a column
\* 'a_b', which is the name of the indicator of category 'b' of 'a'.
InitNumericalize ==
    /\ budget = 1
    /\ \E idx \in {RangeIndex, RepeatedIndex},
          c1 \in CategoricalColumns,
          k2 \in {"text", "numeric", "category"},
          swap \in BOOLEAN :
          Start(IF swap THEN TwoColumns(idx, N_a_b, OneOf(k2), S_a, c1)
                ELSE TwoColumns(idx, S_a, c1, N_a_b, OneOf(k2)),
                {S_a, N_a_b, N_absent})

SpecNumericalize == InitNumericalize /\ [][NumericalizeCategories]_vars

\* One call of interpolate_missing_values on a table of a numeric column 'x' and a second
\* column, named 'x_missing' or 'y'.
InitInterpolate ==
    /\ budget = 1
    /\ \E c1 \in NumericColumns, n2 \in {N_x_missing, N_y}, swap \in BOOLEAN :
          LET Second(c2) == Start(IF swap THEN TwoColumns(RangeIndex, n2, c2, N_x, c1)
                                  ELSE TwoColumns(RangeIndex, N_x, c1, n2, c2),
                                  {N_x, n2, N_absent})
          IN \/ \E c2 \in NumericColumns : Second(c2)
             \/ \E k2 \in {"text", "bool"} : Second(OneOf(k2))

SpecInterpolate == InitInterpolate /\ [][InterpolateMissingValues]_vars

\* One call of extract_date_features on a table of two columns whose names end in the
\* spellings of "date", share a stem, or are one the derived name of the other.
DateLayouts ==
    {<<N_SaleDate, N_Saledate, {N_SaleDate, N_Saledate, N_absent}>>,
     <<N_Sale, N_SaleDate, {N_Sale, N_SaleDate}>>,
     <<N_SALEDATE, N_date, {N_SALEDATE, N_date}>>,
     <<N_SaleDateNL, N_x, {N_SaleDateNL, N_x}>>,
     <<N_SaleDate, N_Sale_year, {N_SaleDate, N_Sale_year}>>}

InitDates ==
    /\ budget = 1
    /\ \E l \in DateLayouts, k2 \in {"datetime", "datetext", "numeric", "text", "bool"} :
          LET First(c1) == Start(TwoColumns(RangeIndex, l[1], c1, l[2], OneOf(k2)), l[3])
          IN \/ \E c1 \in DatetimeColumns : First(c1)
             \/ First(OneDateText)

SpecDates == InitDates /\ [][ExtractDateFeatures]_vars

\* ------------------------------------------------------------------ what the claims speak of
LastCall(fn) == call.fn = fn
ColumnSet(t) == SeqToSet(t.columns)
SelNames(sel) == SeqToSet(NormalizeSelector(sel))
\* the names an argument of the last call mentions that are no column of its input
AbsentIn(sel) == SelNames(sel) \ ColumnSet(call.input)

SameColumn(c1, c2) == c1.dtype = c2.dtype /\ c1 = c2
SameTable(t1, t2) ==
    /\ t1.none = t2.none
    /\ t1.index = t2.index
    /\ t1.columns = t2.columns
    /\ Len(t1.data) = Len(t2.data)
    /\ \A i \in 1..Len(t1.data) : SameColumn(t1.data[i], t2.data[i])

\* two calls ended alike: both raised, or both returned the same table and mapper
SameResult(r1, r2) ==
    /\ r1.ok = r2.ok
    /\ SameTable(r1.table, r2.table)
    /\ DOMAIN r1.mapper = DOMAIN r2.mapper
    /\ \A c \in DOMAIN r1.mapper : r1.mapper[c] = r2.mapper[c]

\* C1: a call leaves the caller's input table as it was (names, order, values and
\* types), whether it returns or raises, and the table it returns is another object.
C1_InputNotMutated ==
    call.fn # "none" =>
        /\ SameTable(ret.input, call.input)
        /\ ret.ok => ret.distinct

\* C1 witness: each kind of write has happened: a call that changed columns in place
\* returned, and the input it was given is still what it was.
C1_Witness ==
    /\ LastCall("interpolate_missing_values")
    /\ ret.ok
    /\ ~SameTable(ret.table, call.input)
    /\ \E i \in 1..NRows(call.input) : \E c \in 1..Len(call.input.data) :
          call.input.data[c].dtype = "numeric" /\ IsNull(call.input.data[c].values[i])

\* C2: whatever calls were made, the table has the rows the first table had.
C2_RowCountInvariant == NRows(table) = NRows(initial)

\* C9 as stated: a call that names an absent column in any of its name arguments raises.
C9_AbsentNameRaises ==
    (AbsentIn(call.ordinal) \cup AbsentIn(call.drop) \cup AbsentIn(call.skip)
        \cup AbsentIn(call.date_features)) # {} => ~ret.ok

\* the names '{stem}_{attr}' the listed columns before position i create
CreatedBefore(fs, i, time) ==
    {DerivedName(DateStem(fs[j]), a) :
        j \in 1..(i - 1), a \in SeqToSet(IF time THEN DateAttrs \o TimeAttrs ELSE DateAttrs)}

\* C9 amended: an absent name raises in the drop set of convert_to_categorical and, unless
\* an earlier listed column creates it, in the date list; in the ordinal set and in a
\* skip set it is ignored; a call that raises returns no table.
C9_AbsentDropOrDateRaises ==
    /\ LastCall("convert_to_categorical") => (ret.ok <=> AbsentIn(call.drop) = {})
    /\ LastCall("interpolate_missing_values") => ret.ok
    /\ LastCall("numericalize_categories") =>
          SameResult(ret, numericalize_categories(
                              call.input, call.max_categories,
                              ListSel(SortStrings(SelNames(call.skip) \cap ColumnSet(call.input)))))
    /\ LastCall("extract_date_features") =>
          LET fs == NormalizeSelector(call.date_features)
          IN (\E i \in 1..Len(fs) :
                 /\ fs[i] \notin ColumnSet(call.input)
                 /\ fs[i] \notin CreatedBefore(fs, i, call.time)) => ~ret.ok
    /\ ~ret.ok => ret.table = NoTable

\* C9 witness: convert_to_categorical returned although its skip set and its ordinal set
\* name an absent column (its drop set names none).
C9_Witness ==
    /\ LastCall("convert_to_categorical")
    /\ ret.ok
    /\ AbsentIn(call.skip) # {}
    /\ AbsentIn(call.ordinal) # {}
    /\ AbsentIn(call.drop) = {}

\* ------------------------------------------------------------------ numericalize_categories: C3, C4
LastReturned(fn) == LastCall(fn) /\ ret.ok
InCol(c) == GetItem(call.input, c)
OutCol(c) == GetItem(ret.table, c)
FromNum(v) == v \div 2
InRows == 1..NRows(call.input)
OutRows == 1..NRows(ret.table)

\* the category a row of a categorical column holds, None when it is missing
CategoryAt(col, i) ==
    IF col.values[i] = -1 THEN None ELSE Some(col.categories[col.values[i] + 1])

\* the categorical columns of the input the call did not skip
CatFeatures ==
    {c \in ColumnSet(call.input) : c \notin SelNames(call.skip) /\ InCol(c).dtype = "category"}
CodedFeatures == {c \in CatFeatures : Len(InCol(c).categories) > call.max_categories}
OneHotFeatures == {c \in CatFeatures : Len(InCol(c).categories) <= call.max_categories}

\* Output row r is input row i: it carries i's label, and it is at i's position when the
\* call kept the row labels as they were.
SameRow(r, i) ==
    /\ ret.table.index[r] = call.input.index[i]
    /\ ret.table.index = call.input.index => r = i

\* the output code of row r, less 1, is a key of the mapper whose value is the category
\* input row i holds
Decodes(c, r, i) ==
    LET k == FromNum(Val(OutCol(c).values[r])) - 1
    IN /\ ~IsNull(CategoryAt(InCol(c), i))
       /\ k \in DOMAIN ret.mapper[c].map
       /\ ret.mapper[c].map[k] = Val(CategoryAt(InCol(c), i))

\* C3 as stated: in every row of a coded column the output code less 1 is a key of the
\* column's mapper entry, and the entry gives the category the row held.
C3_EveryCodeDecodes ==
    LastReturned("numericalize_categories") =>
        \A c \in CodedFeatures :
            /\ c \in DOMAIN ret.mapper
            /\ HasColumn(ret.table, c)
            /\ \A r \in OutRows : \E i \in InRows : SameRow(r, i) /\ Decodes(c, r, i)

\* C3 amended: that holds in the rows whose input value is a category; a row whose input
\* value is missing gets the code 0, and 0 - 1 is no key. The keys are 0 .. n-1 and the
\* codes of the categories 1 .. n.
C3_PresentCodesDecode ==
    LastReturned("numericalize_categories") =>
        \A c \in CodedFeatures :
            /\ c \in DOMAIN ret.mapper
            /\ ret.mapper[c].kind = "codes"
            /\ DOMAIN ret.mapper[c].map = 0..(Len(InCol(c).categories) - 1)
            /\ HasColumn(ret.table, c)
            /\ OutCol(c).dtype = "numeric"
            /\ \A r \in OutRows : \E i \in InRows :
                  /\ SameRow(r, i)
                  /\ IF IsNull(CategoryAt(InCol(c), i))
                     THEN OutCol(c).values[r] = Some(Num(0))
                     ELSE Decodes(c, r, i)
            /\ \A i \in InRows : \E r \in OutRows : SameRow(r, i)

\* C3 witness: a coded column with a row that holds a category and a row that is missing
C3_Witness ==
    /\ LastReturned("numericalize_categories")
    /\ \E c \in CodedFeatures :
          /\ \E i \in InRows : InCol(c).values[i] = -1
          /\ \E i \in InRows : InCol(c).values[i] = 1

RECURSIVE SumSeq(_)
SumSeq(s) == IF s = <<>> THEN 0 ELSE s[1] + SumSeq(Tail(s))

IndicatorNames(c) ==
    [k \in 1..Len(InCol(c).categories) |-> c \o <<"_">> \o InCol(c).categories[k]]

\* C4: a one-hot column is gone from the output (a column of its name can only be the
\* indicator of another column), its mapper entry is 'one-hot', there is an indicator
\* '{column}_{category}' per category, and in every row the indicators sum to 1.
C4_IndicatorsSumToOne ==
    LastReturned("numericalize_categories") =>
        \A c \in OneHotFeatures :
            /\ HasColumn(ret.table, c) =>
                  \E d \in OneHotFeatures \ {c} : c \in SeqToSet(IndicatorNames(d))
            /\ c \in DOMAIN ret.mapper /\ ret.mapper[c] = OneHot
            /\ \A k \in 1..Len(IndicatorNames(c)) : HasColumn(ret.table, IndicatorNames(c)[k])
            /\ \A r \in OutRows :
                  SumSeq([k \in 1..Len(IndicatorNames(c)) |->
                             FromNum(Val(OutCol(IndicatorNames(c)[k]).values[r]))]) = 1

\* ------------------------------------------------------------------ interpolate_missing_values: C5, C6
\* the numeric columns of the input the call did not skip
NumFeatures ==
    {c \in ColumnSet(call.input) : c \notin SelNames(call.skip) /\ IsNumericDtype(InCol(c))}

\* C5: for every numeric column c that is not skipped and every row, '{c}_missing' is true
\* exactly where c was missing in the input, c keeps its value where it had one and holds
\* the median of its input values where it had none.
C5_FlagAndFill ==
    LastReturned("interpolate_missing_values") =>
        \A c \in NumFeatures :
            /\ HasColumn(ret.table, c)
            /\ HasColumn(ret.table, MissingName(c))
            /\ OutCol(MissingName(c)).dtype = "bool"
            /\ \A i \in InRows :
                  /\ OutCol(MissingName(c)).values[i] = Some(IsNull(InCol(c).values[i]))
                  /\ ~IsNull(InCol(c).values[i]) =>
                        /\ OutCol(c).dtype = InCol(c).dtype
                        /\ OutCol(c).values[i] = InCol(c).values[i]
                  /\ IsNull(InCol(c).values[i]) =>
                        /\ OutCol(c).dtype = "numeric"
                        /\ OutCol(c).values[i] = Median(InCol(c))

\* C6: the Numeric Mapper has an entry for exactly the numeric columns that are not
\* skipped, the entry is the median of the column's input values and is the value its
\* missing rows were given; the other columns get no '_missing' companion.
C6_MapperHoldsMedian ==
    LastReturned("interpolate_missing_values") =>
        /\ DOMAIN ret.mapper = NumFeatures
        /\ \A c \in NumFeatures :
              /\ ret.mapper[c] = Median(InCol(c))
              /\ \A i \in InRows :
                    IsNull(InCol(c).values[i]) =>
                        OutCol(c).dtype = "numeric" /\ OutCol(c).values[i] = ret.mapper[c]
        /\ \A c \in ColumnSet(call.input) \ NumFeatures :
              HasColumn(ret.table, MissingName(c)) => HasColumn(call.input, MissingName(c))

\* ------------------------------------------------------------------ convert_to_categorical: C7
\* C7: when the three sets name columns of the table, the output has the columns that
\* are not dropped, in their order; of these a text column that is not skipped is
\* categorical, with the values it had, and ordered exactly when it is in the ordinal
\* set; a skipped text column and a column that is not text are as in the input.
C7_ConvertedColumns ==
    (/\ LastCall("convert_to_categorical")
     /\ AbsentIn(call.ordinal) \cup AbsentIn(call.drop) \cup AbsentIn(call.skip) = {}) =>
        /\ ret.ok
        /\ ret.table.index = call.input.index
        /\ ret.table.columns =
              SelectIdx(call.input.columns,
                        [i \in 1..Len(call.input.columns) |->
                            call.input.columns[i] \notin SelNames(call.drop)], 1)
        /\ \A c \in ColumnSet(ret.table) :
              IF InCol(c).dtype = "text" /\ c \notin SelNames(call.skip)
              THEN /\ OutCol(c).dtype = "category"
                   /\ OutCol(c).ordered <=> c \in SelNames(call.ordinal)
                   /\ \A i \in InRows :
                         CategoryAt(OutCol(c), i) = InCol(c).values[i]
              ELSE SameColumn(OutCol(c), InCol(c))

\* C7 witness: a column in the drop set and the skip set, and a text column of the ordinal
\* set that is kept
C7_Witness ==
    /\ LastReturned("convert_to_categorical")
    /\ AbsentIn(call.ordinal) \cup AbsentIn(call.drop) \cup AbsentIn(call.skip) = {}
    /\ SelNames(call.drop) \cap SelNames(call.skip) # {}
    /\ \E c \in ColumnSet(ret.table) \cap SelNames(call.ordinal) :
          InCol(c).dtype = "text" /\ OutCol(c).ordered

\* ------------------------------------------------------------------ extract_date_features: C8, C10
ListedFeatures == NormalizeSelector(call.date_features)
CallAttrs == SeqToSet(IF call.time THEN DateAttrs \o TimeAttrs ELSE DateAttrs)

EndsWith(name, suffix) ==
    /\ Len(name) >= Len(suffix)
    /\ SubSeq(name, Len(name) - Len(suffix) + 1, Len(name)) = suffix
StripEnd(name, suffix) == SubSeq(name, 1, Len(name) - Len(suffix))

\* the name without a trailing "date" in any letter case
CaseInsensitiveStem(name) ==
    LET n == Len(name)
    IN IF /\ n >= 4
          /\ name[n - 3] \in {"D", "d"} /\ name[n - 2] \in {"A", "a"}
          /\ name[n - 1] \in {"T", "t"} /\ name[n] \in {"E", "e"}
       THEN SubSeq(name, 1, n - 4)
       ELSE name

\* the name without a trailing 'date' or 'Date'; a final newline after it is kept
DateOrDateStem(name) ==
    IF EndsWith(name, N_date) THEN StripEnd(name, N_date)
    ELSE IF EndsWith(name, <<"D", "a", "t", "e">>) THEN StripEnd(name, N_date)
    ELSE IF EndsWith(name, N_dateNL) THEN StripEnd(name, N_dateNL) \o <<"\n">>
    ELSE IF EndsWith(name, <<"D", "a", "t", "e", "\n">>) THEN StripEnd(name, N_dateNL) \o <<"\n">>
    ELSE name

\* The columns the call added are named '{Stem(feature)}_{attr}' for a listed feature, and
\* there is one for every listed feature and attribute (unless it was itself a listed
\* column, which drop removes).
NamedBy(Stem(_)) ==
    LastReturned("extract_date_features") =>
        /\ ColumnSet(ret.table) \ ColumnSet(call.input) \subseteq
              {DerivedName(Stem(f), a) : f \in SeqToSet(ListedFeatures), a \in CallAttrs}
        /\ \A f \in SeqToSet(ListedFeatures), a \in CallAttrs :
              \/ HasColumn(ret.table, DerivedName(Stem(f), a))
              \/ call.dropcol /\ DerivedName(Stem(f), a) \in SeqToSet(ListedFeatures)

\* C8 as stated: the stem is the name without a trailing "date" whatever its letter case
C8_StemCaseInsensitive == NamedBy(CaseInsensitiveStem)

\* C8 amended: only a trailing 'date' or 'Date' is removed (also before one final
\* newline); 'SALEDATE' is its own stem
C8_StemDateOrDate == NamedBy(DateOrDateStem)

\* C8 witness: a call on 'SALEDATE' and 'date' returned
C8_Witness ==
    /\ LastReturned("extract_date_features")
    /\ ListedFeatures = <<N_SALEDATE, N_date>>

\* C10: with two listed columns, the derived columns of each are what extracting that
\* column alone gives, and every other column of the input is as it was.
C10_ListedColumnsIndependent ==
    (LastReturned("extract_date_features") /\ Len(ListedFeatures) = 2) =>
        /\ \A f \in SeqToSet(ListedFeatures) :
              LET alone == extract_date_features(call.input, StrSel(f), call.time, call.dropcol)
              IN alone.ok =>
                    \A a \in CallAttrs :
                        LET d == DerivedName(DateStem(f), a)
                        IN /\ HasColumn(ret.table, d)
                           /\ SameColumn(OutCol(d), GetItem(alone.table, d))
        /\ \A c \in ColumnSet(call.input) \ SeqToSet(ListedFeatures) :
              \/ c \in {DerivedName(DateStem(f), a) : f \in SeqToSet(ListedFeatures), a \in CallAttrs}
              \/ HasColumn(ret.table, c) /\ SameColumn(OutCol(c), InCol(c))

====
